---------------------------- MODULE Spec2Model ----------------------------
(***************************************************************************)
(* A model of the two notebooks of the repository:                         *)
(*   - the optax training script (src/unnamed/part_000): data preparation, *)
(*     the parameter record, fit() and its two invocations;                *)
(*   - the jitting notebook (src/JAX_docs/02-jitting.ipynb): tracing,      *)
(*     jaxprs, the jit compilation cache and the example functions.        *)
(* Floating point tensors are held as terms: a tensor records its shape,   *)
(* the PRNG key it was drawn with, the number of updates applied to it and *)
(* the last of them.  The training arrays never change once drawn, and are *)
(* held by the random stream that produced them.                           *)
(***************************************************************************)
EXTENDS Integers, Sequences, FiniteSets, TLC

(***************************************************************************)
(* Program constants of the training script.                               *)
(***************************************************************************)
BATCH_SIZE == 5
NUM_TRAIN_STEPS == 1000
\* np.random.randint(255, ...): the exclusive upper end of the raw integers
RAND_HIGH == 255
\* f'step {i}' is printed when i % LOG_EVERY == 0
LOG_EVERY == 100

(***************************************************************************)
(* Bounds of the model.                                                    *)
(***************************************************************************)
\* the random draws of RAW_TRAINING_DATA are taken from MaxSeed + 1 streams
MaxSeed == 1
\* a session of the jitting notebook makes at most MaxCalls calls
MaxCalls == 3
\* a %timeit runs its statement MaxLoops times at most
MaxLoops == 2
\* the timed calls g...(10, 20) of the notebook are made with n = TimedN
TimedN == 5

Seeds == 0 .. MaxSeed

Min(a, b) == IF a <= b THEN a ELSE b

Last(s) == s[Len(s)]

(***************************************************************************)
(* Cell 1: the training data.                                              *)
(***************************************************************************)
\* one draw of np.random.randint(255): a value of 0 .. 254, here the
\* (i, j)-th value of the stream `seed`
randint(seed, i, j) == (seed * 131 + i * 37 + j * 11 + (i \div 7)) % RAND_HIGH

\* np.random.randint(255, size=(NUM_TRAIN_STEPS, BATCH_SIZE, 1)): the block
\* i (0 .. NUM_TRAIN_STEPS - 1) of the array, of shape (BATCH_SIZE, 1)
DrawRaw(seed, i) == [j \in 1 .. BATCH_SIZE |-> << randint(seed, i, j - 1) >>]

\* x.astype(np.uint8) of one integer
astype_uint8(v) == v % 256

\* np.unpackbits of one uint8: its 8 bits, most significant first
unpackbits_lsb(v) == [k \in 1 .. 8 |-> (v \div (2 ^ (k - 1))) % 2]
unpackbits(v) == [k \in 1 .. 8 |-> (v \div (2 ^ (8 - k))) % 2]

\* np.unpackbits(a, axis=-1) of one row of shape (1,): shape (8,)
unpackbits_row(row) == unpackbits(row[1])

\* jax.nn.one_hot(c, num_classes)
one_hot_swapped(c, num_classes) == [k \in 1 .. num_classes |-> IF k - 1 = c THEN 0 ELSE 1]
one_hot(c, num_classes) == [k \in 1 .. num_classes |-> IF k - 1 = c THEN 1 ELSE 0]

\* TRAINING_DATA = np.unpackbits(RAW_TRAINING_DATA.astype(np.uint8), axis=-1),
\* of one block of the raw array: shape (BATCH_SIZE, 8)
MakeTrainingData(raw) ==
  [j \in 1 .. Len(raw) |->
     unpackbits_row([c \in 1 .. Len(raw[j]) |-> astype_uint8(raw[j][c])])]

\* LABELS = jax.nn.one_hot(RAW_TRAINING_DATA % 2, 2).astype(jnp.float32)
\*            .reshape(NUM_TRAIN_STEPS, BATCH_SIZE, 2), of one block of the raw
\* array: one_hot gives shape (BATCH_SIZE, 1, 2) and the reshape drops the axis
\* of length 1
MakeLabels(raw) == [j \in 1 .. BATCH_SIZE |-> one_hot(raw[j][1] % 2, 2)]

(***************************************************************************)
(* Cell 2: the parameter record, the network and the loss.                 *)
(***************************************************************************)
\* jax.random.normal(shape=shape, key=jax.random.PRNGKey(key)): a fresh
\* tensor with no update applied
normal(shape, key) == [shape |-> shape, key |-> key, n |-> 0, tip |-> << >>]

InitialParams ==
  [hidden |-> normal(<<8, 32>>, 0), output |-> normal(<<32, 2>>, 1)]

\* what a batch and its labels contribute to a gradient: the bytes of the
\* five rows and the classes of the five labels
BatchDigest(batch, labels) ==
  [x |-> [j \in 1 .. Len(batch) |->
            batch[j][1] * 128 + batch[j][2] * 64 + batch[j][3] * 32
              + batch[j][4] * 16 + batch[j][5] * 8 + batch[j][6] * 4
              + batch[j][7] * 2 + batch[j][8]],
   y |-> [j \in 1 .. Len(labels) |-> labels[j][2]]]

\* the value of a parameter record: how many updates it has had and the last
Stamp(p) ==
  [keys |-> <<p.hidden.key, p.output.key>>, n |-> p.hidden.n, tip |-> p.hidden.tip]

\* the shape of an array held as its rows
shape_of(rows) == << Len(rows), Len(rows[1]) >>

\* the shape of jnp.dot(a, b) of two matrices; << -1 >> if they do not align
dot(a_shape, b_shape) ==
  IF Len(a_shape) = 2 /\ Len(b_shape) = 2 /\ a_shape[2] = b_shape[1]
    THEN << a_shape[1], b_shape[2] >>
    ELSE << -1 >>

\* jax.nn.relu is elementwise
relu(x_shape) == x_shape

\* net(x, params): the shape of dot(relu(dot(x, hidden)), output)
net_hidden_only(x, p) == relu(dot(shape_of(x), p.hidden.shape))
net(x, p) == dot(relu(dot(shape_of(x), p.hidden.shape)), p.output.shape)

\* optax.sigmoid_binary_cross_entropy(y_hat, labels).sum(axis=-1).mean(): the
\* cross entropy is elementwise, so the two shapes must be equal; the sum and
\* the mean leave a scalar
cross_entropy_mean(y_hat_shape, labels_shape) ==
  IF y_hat_shape = labels_shape THEN << >> ELSE << -1 >>

\* loss(params, batch, labels): the mean sigmoid cross entropy of
\* net(batch, params) against labels, held as a term with the shapes of
\* y_hat and of the result
loss(p, batch, labels) ==
  [of |-> "loss", params |-> Stamp(p), data |-> BatchDigest(batch, labels),
   y_hat |-> net(batch, p),
   shape |-> cross_entropy_mean(net(batch, p), shape_of(labels))]

(***************************************************************************)
(* Cell 3: fit.                                                            *)
(***************************************************************************)
\* optimizer.init(params)
OptInit(opt, p) == [opt |-> opt, count |-> 0]

\* jax.value_and_grad(loss)(params, batch, labels), optimizer.update and
\* optax.apply_updates: the body of step.  The result is a new record: passed
\* is the record that was passed in as it is after the call, which no
\* statement of step changes (params = ... rebinds the local name)
step_stale(p, opt_state, batch, labels) ==
  [params |-> p,
   opt_state |-> [opt_state EXCEPT !.count = @ + 1],
   loss_value |-> loss(p, batch, labels),
   passed |-> p]
step_inplace(p, opt_state, batch, labels) ==
  LET updates == [grads |-> [g |-> BatchDigest(batch, labels), at |-> Stamp(p).n],
                  opt |-> opt_state.opt, t |-> opt_state.count]
      new_params == [k \in DOMAIN p |->
                       [p[k] EXCEPT !.n = @ + 1, !.tip = << updates >>]]
  IN [params |-> new_params,
      opt_state |-> [opt_state EXCEPT !.count = @ + 1],
      loss_value |-> loss(p, batch, labels),
      passed |-> new_params]
step_loss_after(p, opt_state, batch, labels) ==
  LET updates == [grads |-> [g |-> BatchDigest(batch, labels), at |-> Stamp(p).n],
                  opt |-> opt_state.opt, t |-> opt_state.count]
      new_params == [k \in DOMAIN p |->
                       [p[k] EXCEPT !.n = @ + 1, !.tip = << updates >>]]
  IN [params |-> new_params,
      opt_state |-> [opt_state EXCEPT !.count = @ + 1],
      loss_value |-> loss(new_params, batch, labels),
      passed |-> p]
step(p, opt_state, batch, labels) ==
  LET loss_value == loss(p, batch, labels)
      grads == [g |-> BatchDigest(batch, labels), at |-> Stamp(p).n]
      updates == [grads |-> grads, opt |-> opt_state.opt, t |-> opt_state.count]
      new_opt_state == [opt_state EXCEPT !.count = @ + 1]
      new_params == [k \in DOMAIN p |->
                       [p[k] EXCEPT !.n = @ + 1, !.tip = << updates >>]]
  IN [params |-> new_params, opt_state |-> new_opt_state, loss_value |-> loss_value,
      passed |-> p]

\* @jax.jit / def step(...) inside fit: the function object the def makes, a
\* new one each time the def statement runs; next counts the objects made
DefStep_shared(next) == [name |-> "step", oid |-> 0]
DefStep(next) == [name |-> "step", oid |-> next + 1]

\* the number of iterations of  for i, (batch, labels) in enumerate(zip(a, b))
ZipLen_short(len_a, len_b) == Min(len_a, len_b) - 1
ZipLen(len_a, len_b) == Min(len_a, len_b)

\* if i % 100 == 0
ShouldLog_off(i) == (i + 1) % LOG_EVERY = 0
ShouldLog(i) == i % LOG_EVERY = 0

(***************************************************************************)
(* The jitting notebook: values.                                           *)
(*                                                                         *)
(* A value is a Python scalar (k = "py"), a concrete JAX array (k = "arr") *)
(* or a tracer (k = "tr").  An array is held by its shape, dtype, weak     *)
(* type flag and the integer v that fills it; the v of a float32 array is  *)
(* not computed and is held as 0.  A Python float is held in hundredths.   *)
(* A Python int is unbounded: one beyond the int32 range is held as        *)
(* big = TRUE, its magnitude untracked.  The v of a tracer is the number   *)
(* of its variable in the jaxpr under construction.                        *)
(***************************************************************************)
\* the results shown by the notebook are int32: Array(30, dtype=int32, ...)
INT32_MAX == 2147483647
INT32_MIN == (-INT32_MAX) - 1

PyInt(v) == [k |-> "py", shape |-> << >>, dtype |-> "int", weak |-> TRUE, v |-> v, big |-> FALSE]
PyBig == [k |-> "py", shape |-> << >>, dtype |-> "int", weak |-> TRUE, v |-> 0, big |-> TRUE]
PyFloat(h) == [k |-> "py", shape |-> << >>, dtype |-> "float", weak |-> TRUE, v |-> h, big |-> FALSE]
PyBool(b) == [k |-> "py", shape |-> << >>, dtype |-> "bool", weak |-> TRUE, v |-> IF b THEN 1 ELSE 0, big |-> FALSE]
Arr(shape, dtype, weak, v) ==
  [k |-> "arr", shape |-> shape, dtype |-> dtype, weak |-> weak, v |-> v, big |-> FALSE]
Tracer(aval, id) ==
  [k |-> "tr", shape |-> aval.shape, dtype |-> aval.dtype, weak |-> aval.weak, v |-> id, big |-> FALSE]

\* the dtype JAX gives a value: a Python int is a weakly typed int32, a Python
\* float a weakly typed float32
JaxDtype(d) == CASE d = "int" -> "int32" [] d = "float" -> "float32" [] OTHER -> d

\* the abstract value (ShapedArray) of a value: its shape and type, not its value
Abstractify(x) == [shape |-> x.shape, dtype |-> JaxDtype(x.dtype), weak |-> x.weak]

\* x.ndim
ndim(x) == Len(x.shape)

(***************************************************************************)
(* Integer arithmetic: Python's is exact, int32's wraps around.            *)
(***************************************************************************)
AddFits(a, b) == IF b >= 0 THEN a <= INT32_MAX - b ELSE a >= INT32_MIN - b

WrapAdd32(a, b) ==
  IF AddFits(a, b) THEN a + b
  ELSE IF b > 0 THEN ((a + INT32_MIN) + b) + INT32_MIN
  ELSE ((a - INT32_MIN) + b) - INT32_MIN

\* floor(2^31 / a) for a > 0
Pow31Div(a) == (INT32_MAX \div a) + (IF INT32_MAX % a = a - 1 THEN 1 ELSE 0)

MulFits(a, b) ==
  CASE a = 0 \/ b = 0 -> TRUE
    [] a > 0 /\ b > 0 -> b <= INT32_MAX \div a
    [] a > 0 /\ b < 0 -> b >= -Pow31Div(a)
    [] a < 0 /\ b > 0 -> a >= -Pow31Div(b)
    [] OTHER -> a # INT32_MIN /\ b # INT32_MIN /\ (-a) <= INT32_MAX \div (-b)

\* a Python operator on two Python scalars
PyOp(prim, a, b) ==
  CASE prim = "gt" -> PyBool(a.v > b.v)
    [] prim = "lt" -> PyBool(a.v < b.v)
    [] prim = "add" ->
         IF a.big \/ b.big \/ ~AddFits(a.v, b.v) THEN PyBig ELSE PyInt(a.v + b.v)
    [] prim = "sub" ->
         IF a.big \/ b.big \/ b.v = INT32_MIN \/ ~AddFits(a.v, -b.v)
           THEN PyBig ELSE PyInt(a.v - b.v)
    [] prim = "mul" ->
         IF a.big \/ b.big \/ ~MulFits(a.v, b.v) THEN PyBig ELSE PyInt(a.v * b.v)

\* an XLA primitive on two int32 values (comparisons give 1 or 0)
IntPrim(prim, a, b) ==
  CASE prim = "gt" -> IF a > b THEN 1 ELSE 0
    [] prim = "lt" -> IF a < b THEN 1 ELSE 0
    [] prim = "add" -> WrapAdd32(a, b)
    [] prim = "sub" -> IF b = INT32_MIN THEN WrapAdd32(WrapAdd32(a, INT32_MAX), 1)
                       ELSE WrapAdd32(a, -b)
    [] OTHER -> 0

(***************************************************************************)
(* The execution context of a Python function body: the jaxpr equations    *)
(* recorded so far when tracing, the error raised if any, and the Python   *)
(* side effects on global_list and on standard output.                     *)
(***************************************************************************)
NewCtx(tracing, nvars, glist, out) ==
  [tracing |-> tracing, eqns |-> << >>, nvars |-> nvars, err |-> "",
   global_list |-> glist, printed |-> out]

Raise(ctx, e) == [ctx EXCEPT !.err = IF @ = "" THEN e ELSE @]

\* an operand of a jaxpr equation: a variable or a literal
Operand(x) ==
  IF x.k = "tr" THEN [var |-> TRUE, v |-> x.v, dtype |-> x.dtype]
  ELSE [var |-> FALSE, v |-> x.v, dtype |-> JaxDtype(x.dtype)]

Broadcast(s1, s2) == IF s1 = << >> THEN s2 ELSE s1

ResultDtype(prim, a, b) ==
  CASE prim \in {"gt", "lt"} -> "bool"
    [] prim \in {"log", "exp", "div"} -> "float32"
    [] OTHER -> IF "float32" \in {JaxDtype(a.dtype), JaxDtype(b.dtype)}
                  THEN "float32" ELSE "int32"

\* record the equation  out = prim a b  and return the tracer of out
Stage(ctx, prim, a, b) ==
  IF a.big \/ b.big THEN [ctx |-> Raise(ctx, "OverflowError"), val |-> a]
  ELSE
    LET id == ctx.nvars + 1
        aval == [shape |-> Broadcast(a.shape, b.shape),
                 dtype |-> ResultDtype(prim, a, b), weak |-> a.weak /\ b.weak]
    IN [ctx |-> [ctx EXCEPT !.nvars = id,
                            !.eqns = Append(@, [prim |-> prim,
                                                ins |-> << Operand(a), Operand(b) >>,
                                                out |-> id])],
        val |-> Tracer(aval, id)]

\* the same for a primitive of one operand
Stage1(ctx, prim, a) ==
  LET id == ctx.nvars + 1
      aval == [shape |-> a.shape, dtype |-> ResultDtype(prim, a, a), weak |-> a.weak]
  IN [ctx |-> [ctx EXCEPT !.nvars = id,
                          !.eqns = Append(@, [prim |-> prim, ins |-> << Operand(a) >>,
                                              out |-> id])],
      val |-> Tracer(aval, id)]

\* a JAX operation executed at once on concrete values, one of them an array
Eager(ctx, prim, a, b) ==
  IF a.big \/ b.big THEN [ctx |-> Raise(ctx, "OverflowError"), val |-> a]
  ELSE [ctx |-> ctx,
        val |-> Arr(Broadcast(a.shape, b.shape), ResultDtype(prim, a, b),
                    a.weak /\ b.weak,
                    IF ResultDtype(prim, a, b) = "float32" THEN 0
                    ELSE IntPrim(prim, a.v, b.v))]

\* a Python operator  a <prim> b  (+, -, *, <, >): on a tracer it is recorded,
\* on an array it is executed by JAX, on two Python scalars by Python
BinOp(ctx, prim, a, b) ==
  IF ctx.err # "" THEN [ctx |-> ctx, val |-> a]
  ELSE IF a.k = "tr" \/ b.k = "tr" THEN Stage(ctx, prim, a, b)
  ELSE IF a.k = "arr" \/ b.k = "arr" THEN Eager(ctx, prim, a, b)
  ELSE [ctx |-> ctx, val |-> PyOp(prim, a, b)]

\* jnp.log(x), jnp.exp(x): recorded while tracing, whatever x is
JnpUnary(ctx, prim, a) ==
  IF ctx.err # "" THEN [ctx |-> ctx, val |-> a]
  ELSE IF ctx.tracing THEN Stage1(ctx, prim, a)
  ELSE [ctx |-> ctx, val |-> Arr(a.shape, "float32", a.weak, 0)]

\* jnp.where(c, a, b): the select_n primitive
JnpWhere(ctx, c, a, b) ==
  IF ctx.err # "" THEN [ctx |-> ctx, val |-> a]
  ELSE IF ctx.tracing THEN
    LET id == ctx.nvars + 1
        aval == [shape |-> Broadcast(c.shape, Broadcast(a.shape, b.shape)),
                 dtype |-> ResultDtype("select_n", a, b), weak |-> a.weak /\ b.weak]
    IN [ctx |-> [ctx EXCEPT !.nvars = id,
                            !.eqns = Append(@, [prim |-> "select_n",
                                                ins |-> << Operand(c), Operand(b), Operand(a) >>,
                                                out |-> id])],
        val |-> Tracer(aval, id)]
  ELSE [ctx |-> ctx,
        val |-> Arr(Broadcast(c.shape, Broadcast(a.shape, b.shape)),
                    ResultDtype("select_n", a, b), a.weak /\ b.weak,
                    IF ResultDtype("select_n", a, b) = "float32" THEN 0
                    ELSE IF c.v # 0 THEN a.v ELSE b.v)]

\* bool(c), as  if c:  and  while c:  call it: a tracer has no concrete value
Bool_falsy(ctx, c) ==
  IF ctx.err # "" THEN [ctx |-> ctx, val |-> FALSE]
  ELSE IF c.k = "tr" THEN [ctx |-> ctx, val |-> FALSE]
  ELSE IF c.shape # << >> THEN [ctx |-> Raise(ctx, "ValueError"), val |-> FALSE]
  ELSE [ctx |-> ctx, val |-> c.v # 0]
Bool(ctx, c) ==
  IF ctx.err # "" THEN [ctx |-> ctx, val |-> FALSE]
  ELSE IF c.k = "tr" THEN [ctx |-> Raise(ctx, "ConcretizationTypeError"), val |-> FALSE]
  ELSE IF c.shape # << >> THEN [ctx |-> Raise(ctx, "ValueError"), val |-> FALSE]
  ELSE [ctx |-> ctx, val |-> c.v # 0]

(***************************************************************************)
(* The functions of the jitting notebook.  Each takes the execution        *)
(* context and its arguments and gives the context after it and its value. *)
(* Then(e, F) is F applied to the value of e, which is computed once: the  *)
(* statements of a body follow each other through it.                      *)
(***************************************************************************)
Then(e, F(_)) == CHOOSE out \in {F(r) : r \in {e}} : TRUE

log2(ctx, x) ==
  Then([ctx EXCEPT !.global_list = Append(@, x)], LAMBDA c1 :
  Then(JnpUnary(c1, "log", x), LAMBDA ln_x :
  Then(JnpUnary(ln_x.ctx, "log", PyFloat(200)), LAMBDA ln_2 :
  BinOp(ln_2.ctx, "div", ln_x.val, ln_2.val))))

log2_with_print(ctx, x) ==
  Then([ctx EXCEPT !.printed = Append(@, [text |-> "printed x:", val |-> x])], LAMBDA c1 :
  Then(JnpUnary(c1, "log", x), LAMBDA ln_x :
  Then(JnpUnary(ln_x.ctx, "log", PyFloat(200)), LAMBDA ln_2 :
  BinOp(ln_2.ctx, "div", ln_x.val, ln_2.val))))

log2_if_rank_2_always(ctx, x) ==
  Then(JnpUnary(ctx, "log", x), LAMBDA ln_x :
  Then(JnpUnary(ln_x.ctx, "log", PyFloat(200)), LAMBDA ln_2 :
  BinOp(ln_2.ctx, "div", ln_x.val, ln_2.val)))
log2_if_rank_2(ctx, x) ==
  IF ndim(x) = 2
    THEN Then(JnpUnary(ctx, "log", x), LAMBDA ln_x :
         Then(JnpUnary(ln_x.ctx, "log", PyFloat(200)), LAMBDA ln_2 :
         BinOp(ln_2.ctx, "div", ln_x.val, ln_2.val)))
    ELSE [ctx |-> ctx, val |-> x]

\* lambda_ * jnp.where(x > 0, x, alpha * jnp.exp(x) - alpha)
selu(ctx, x, alpha, lambda_) ==
  Then(BinOp(ctx, "gt", x, PyInt(0)), LAMBDA pos :
  Then(JnpUnary(pos.ctx, "exp", x), LAMBDA ex :
  Then(BinOp(ex.ctx, "mul", alpha, ex.val), LAMBDA scaled :
  Then(BinOp(scaled.ctx, "sub", scaled.val, alpha), LAMBDA neg :
  Then(JnpWhere(neg.ctx, pos.val, x, neg.val), LAMBDA chosen :
  BinOp(chosen.ctx, "mul", lambda_, chosen.val))))))

\* if x > 0: return x / else: return 2 * x
f_abs(ctx, x) ==
  Then(BinOp(ctx, "gt", x, PyInt(0)), LAMBDA c :
  Then(Bool(c.ctx, c.val), LAMBDA b :
  IF b.ctx.err # "" \/ b.val THEN [ctx |-> b.ctx, val |-> x]
  ELSE BinOp(b.ctx, "sub", PyInt(0), x)))
f(ctx, x) ==
  Then(BinOp(ctx, "gt", x, PyInt(0)), LAMBDA c :
  Then(Bool(c.ctx, c.val), LAMBDA b :
  IF b.ctx.err # "" \/ b.val THEN [ctx |-> b.ctx, val |-> x]
  ELSE BinOp(b.ctx, "mul", PyInt(2), x)))

\* while i < n: i += 1
RECURSIVE g_while(_, _, _)
g_while(ctx, i, n) ==
  Then(BinOp(ctx, "lt", i, n), LAMBDA c :
  Then(Bool(c.ctx, c.val), LAMBDA b :
  IF b.ctx.err # "" \/ ~b.val THEN [ctx |-> b.ctx, val |-> i]
  ELSE Then(BinOp(b.ctx, "add", i, PyInt(1)), LAMBDA r :
       g_while(r.ctx, r.val, n))))

\* i = 0; while i < n: i += 1; return x + i
g(ctx, x, n) ==
  Then(g_while(ctx, PyInt(0), n), LAMBDA w : BinOp(w.ctx, "add", x, w.val))

\* the function under @partial(jax.jit, static_argnames=['n']): the same body
g_jit_decorated(ctx, x, n) ==
  Then(g_while(ctx, PyInt(0), n), LAMBDA w : BinOp(w.ctx, "add", x, w.val))

\* return prev_i + 1
loop_body(ctx, prev_i) == BinOp(ctx, "add", prev_i, PyInt(1))

unjitted_loop_body(ctx, prev_i) == BinOp(ctx, "add", prev_i, PyInt(1))

\* the call of the Python function that a function object wraps
Body(fname, ctx, args) ==
  CASE fname = "log2" -> log2(ctx, args[1])
    [] fname = "log2_with_print" -> log2_with_print(ctx, args[1])
    [] fname = "log2_if_rank_2" -> log2_if_rank_2(ctx, args[1])
    [] fname = "selu" -> selu(ctx, args[1], PyFloat(167), PyFloat(105))
    [] fname = "f" -> f(ctx, args[1])
    [] fname = "g" -> g(ctx, args[1], args[2])
    [] fname = "g_jit_decorated" -> g_jit_decorated(ctx, args[1], args[2])
    [] fname = "loop_body" -> loop_body(ctx, args[1])
    [] fname = "unjitted_loop_body" -> unjitted_loop_body(ctx, args[1])
    [] fname = "partial(unjitted_loop_body)" -> unjitted_loop_body(ctx, args[1])
    [] fname = "lambda x: unjitted_loop_body(x)" -> unjitted_loop_body(ctx, args[1])

(***************************************************************************)
(* Tracing, jaxprs and the jit cache.                                      *)
(***************************************************************************)
Ok(v) == [err |-> "", val |-> << v >>]
Err(e) == [err |-> e, val |-> << >>]

\* the number of the jaxpr variable of the argument at position p
DynIndex(statics, p) == Cardinality({q \in 1 .. p : q \notin statics})

\* the arguments as the traced body sees them: a tracer of the abstract value
\* for each argument that is not static
Tracers(statics, args) ==
  [p \in 1 .. Len(args) |->
     IF p \in statics THEN args[p]
     ELSE Tracer(Abstractify(args[p]), DynIndex(statics, p))]

\* trace the function: the arguments that are not static are replaced by
\* tracers and the Python body runs once; gives the jaxpr, the error raised
\* and the side effects of the run
Trace(fname, statics, args, glist, out) ==
  Then(Tracers(statics, args), LAMBDA targs :
  Then(Body(fname, NewCtx(TRUE, DynIndex(statics, Len(args)), glist, out), targs),
       LAMBDA r :
    [err |-> IF r.ctx.err # "" THEN r.ctx.err
             ELSE IF r.val.big THEN "OverflowError" ELSE "",
     jaxpr |-> [nin |-> DynIndex(statics, Len(args)),
                eqns |-> r.ctx.eqns,
                out |-> Operand(r.val),
                outaval |-> Abstractify(r.val)],
     global_list |-> r.ctx.global_list,
     printed |-> r.ctx.printed]))

RECURSIVE RunEqns(_, _, _)
RunEqns(eqns, k, env) ==
  IF k > Len(eqns) THEN env
  ELSE Then(eqns[k], LAMBDA e :
       Then(Append(env, IntPrim(e.prim,
                                IF e.ins[1].var THEN env[e.ins[1].v] ELSE e.ins[1].v,
                                IF e.ins[2].var THEN env[e.ins[2].v] ELSE e.ins[2].v)),
            LAMBDA env2 : RunEqns(eqns, k + 1, env2)))

\* run the compiled code of a jaxpr on the values of the traced arguments
RunJaxpr(jaxpr, dynvals) ==
  Arr(jaxpr.outaval.shape, jaxpr.outaval.dtype, jaxpr.outaval.weak,
      IF jaxpr.outaval.dtype = "float32" THEN 0
      ELSE IF jaxpr.out.var THEN RunEqns(jaxpr.eqns, 1, dynvals)[jaxpr.out.v]
      ELSE jaxpr.out.v)

\* the part of the cache key an argument gives: its value if it is static,
\* its shape and type only if it is traced
KeyPart_valued(x, static) ==
  [shape |-> x.shape, dtype |-> JaxDtype(x.dtype), weak |-> x.weak,
   static |-> static, v |-> x.v, big |-> x.big]
KeyPart_unvalued(x, static) ==
  [shape |-> x.shape, dtype |-> JaxDtype(x.dtype), weak |-> x.weak,
   static |-> static, v |-> 0, big |-> FALSE]
KeyPart(x, static) ==
  [shape |-> x.shape, dtype |-> JaxDtype(x.dtype), weak |-> x.weak,
   static |-> static,
   v |-> IF static THEN x.v ELSE 0,
   big |-> IF static THEN x.big ELSE FALSE]

\* the cache key of a call: the function object and the key parts of the arguments
CacheKey(fnobj, statics, args) ==
  [fn |-> fnobj, parts |-> [p \in 1 .. Len(args) |-> KeyPart(args[p], p \in statics)]]

\* the values of the arguments that are traced, in the order of the jaxpr's inputs
DynVals(statics, args) ==
  [q \in 1 .. DynIndex(statics, Len(args)) |->
     args[CHOOSE p \in 1 .. Len(args) :
            p \notin statics /\ DynIndex(statics, p) = q].v]

\* the call traces and compiles: the side effects of the Python body happen,
\* and if no error is raised the code is cached and runs
Compile(ms, key, fnobj, statics, args) ==
  Then(Trace(fnobj.name, statics, args, ms.global_list, ms.printed), LAMBDA t :
    IF t.err # ""
      THEN [ms |-> [ms EXCEPT !.global_list = t.global_list, !.printed = t.printed],
            res |-> Err(t.err)]
      ELSE [ms |-> [ms EXCEPT !.cache = @ \cup {[key |-> key, jaxpr |-> t.jaxpr]},
                              !.compiled = Append(@, key),
                              !.global_list = t.global_list,
                              !.printed = t.printed],
            res |-> Ok(RunJaxpr(t.jaxpr, DynVals(statics, args)))])

\* a call of jax.jit(fnobj, static_argnums=statics)(*args) in the machine
\* state ms: the cached code runs if the key is cached; otherwise the function
\* is traced and compiled, the result cached, and the code runs
JitCall_nocache(ms, fnobj, statics, args) ==
  Then(CacheKey(fnobj, statics, args), LAMBDA key :
    IF \E p \in 1 .. Len(args) : p \notin statics /\ args[p].big
      THEN [ms |-> ms, res |-> Err("OverflowError")]
    ELSE Compile(ms, key, fnobj, statics, args))
JitCall(ms, fnobj, statics, args) ==
  Then(CacheKey(fnobj, statics, args), LAMBDA key :
    IF \E p \in 1 .. Len(args) : p \notin statics /\ args[p].big
      THEN [ms |-> ms, res |-> Err("OverflowError")]
    ELSE IF \E e \in ms.cache : e.key = key
      THEN [ms |-> ms,
            res |-> Ok(RunJaxpr((CHOOSE e \in ms.cache : e.key = key).jaxpr,
                                DynVals(statics, args)))]
    ELSE Compile(ms, key, fnobj, statics, args))

\* a function defined at the top level of the notebook is one object; partial(...)
\* and lambda make a new object at every evaluation
TopLevel(name) == [name |-> name, oid |-> 0]

\* what the loop of g_inner_jitted* passes to jax.jit (or calls, for the
\* decorated loop_body) in one iteration, and the object counter after it
InnerFn_shared(variant, next) ==
  CASE variant = "g_inner_jitted" -> [fn |-> TopLevel("loop_body"), next |-> next]
    [] variant = "g_inner_jitted_partial" ->
         [fn |-> TopLevel("partial(unjitted_loop_body)"), next |-> next]
    [] variant = "g_inner_jitted_lambda" ->
         [fn |-> TopLevel("lambda x: unjitted_loop_body(x)"), next |-> next]
    [] variant = "g_inner_jitted_normal" ->
         [fn |-> TopLevel("unjitted_loop_body"), next |-> next]
InnerFn(variant, next) ==
  CASE variant = "g_inner_jitted" -> [fn |-> TopLevel("loop_body"), next |-> next]
    [] variant = "g_inner_jitted_partial" ->
         [fn |-> [name |-> "partial(unjitted_loop_body)", oid |-> next + 1],
          next |-> next + 1]
    [] variant = "g_inner_jitted_lambda" ->
         [fn |-> [name |-> "lambda x: unjitted_loop_body(x)", oid |-> next + 1],
          next |-> next + 1]
    [] variant = "g_inner_jitted_normal" ->
         [fn |-> TopLevel("unjitted_loop_body"), next |-> next]

\* while i < n: i = <jitted loop body>(i)
RECURSIVE inner_while(_, _, _, _)
inner_while(variant, ms, i, n) ==
  Then(BinOp(NewCtx(FALSE, 0, ms.global_list, ms.printed), "lt", i, n), LAMBDA c :
  Then(Bool(c.ctx, c.val), LAMBDA b :
  IF b.ctx.err # "" THEN [ms |-> ms, err |-> b.ctx.err, val |-> i]
  ELSE IF ~b.val THEN [ms |-> ms, err |-> "", val |-> i]
  ELSE Then(InnerFn(variant, ms.next_oid), LAMBDA made :
       Then(JitCall([ms EXCEPT !.next_oid = made.next], made.fn, {}, << i >>), LAMBDA r :
       IF r.res.err # "" THEN [ms |-> r.ms, err |-> r.res.err, val |-> i]
       ELSE inner_while(variant, r.ms, r.res.val[1], n)))))

\* g_inner_jitted, g_inner_jitted_partial, g_inner_jitted_lambda and
\* g_inner_jitted_normal: i = 0; the loop; return x + i
g_inner(variant, ms, x, n) ==
  Then(inner_while(variant, ms, PyInt(0), n), LAMBDA w :
  Then(BinOp(NewCtx(FALSE, 0, w.ms.global_list, w.ms.printed), "add", x, w.val),
       LAMBDA sum :
    IF w.err # "" THEN [ms |-> w.ms, res |-> Err(w.err)]
    ELSE IF sum.ctx.err # "" THEN [ms |-> w.ms, res |-> Err(sum.ctx.err)]
    ELSE [ms |-> w.ms, res |-> Ok(sum.val)]))

VARIABLES
  pc,                  \* the next thing the script does
  cell,                \* the execution count of the running cell
  data_seed,           \* the random stream RAW_TRAINING_DATA was drawn from
  initial_params,
  optimizer,           \* the global optimizer
  fitted,              \* the global params, assigned from fit's result
  params, opt_state, i, loss_value,   \* fit's frame
  step_fn,             \* fit's frame: the jitted function step
  stdout,              \* the lines printed, each with the cell that printed it
  \* the jitting notebook
  subject,             \* the function of the notebook that the session calls
  jit_cache,           \* the compiled code jax.jit holds: entries [key, jaxpr]
  compiled,            \* the keys compiled, in the order of the compilations
  next_oid,            \* the number of function objects made by partial/lambda
  global_list,         \* the list global_list
  printed,             \* what the notebook's functions printed
  calls,               \* the calls made, each with its arguments and result
  \* the timed cells of the jitting notebook
  tpc,                 \* the statement of TimingScript that runs next
  phase,               \* where the host is in it: idle, called, blocked, returned
  device,              \* the computation of the result: none, running, done
  loop,                \* the loops of the running %timeit that have ended
  timer,               \* whether a timer runs, and len(compiled) at its start
  measured             \* a record for every run of a statement that has ended

fitvars == << pc, cell, data_seed, initial_params,
              optimizer, fitted, params, opt_state, i, loss_value, step_fn,
              stdout >>

jitvars == << subject, jit_cache, compiled, next_oid, global_list, printed, calls >>

timevars == << tpc, phase, device, loop, timer, measured >>

vars == << fitvars, jitvars, timevars >>

None == << >>

\* the three global arrays of cell 1, once it has run: A(i) is the block A[i]
\* of the array, i = 0 .. NUM_TRAIN_STEPS - 1
RAW_TRAINING_DATA_redrawn(k) == DrawRaw(data_seed + cell, k)
RAW_TRAINING_DATA(k) == DrawRaw(data_seed, k)
TRAINING_DATA(k) == MakeTrainingData(RAW_TRAINING_DATA(k))
LABELS(k) == MakeLabels(RAW_TRAINING_DATA(k))

\* len(TRAINING_DATA) and len(LABELS): the first axis of size=(NUM_TRAIN_STEPS,
\* BATCH_SIZE, 1), which unpackbits keeps, and of reshape(NUM_TRAIN_STEPS, ...)
TRAINING_DATA_len == NUM_TRAIN_STEPS
LABELS_len == NUM_TRAIN_STEPS

\* the script before its first cell
FitIdle ==
  /\ pc = "cell1"
  /\ cell = 0
  /\ data_seed = None
  /\ initial_params = None
  /\ optimizer = None
  /\ fitted = None
  /\ params = None
  /\ opt_state = None
  /\ i = 0
  /\ loss_value = None
  /\ step_fn = None
  /\ stdout = << >>

\* the jitting notebook with nothing called yet
JitIdle ==
  /\ jit_cache = {}
  /\ compiled = << >>
  /\ next_oid = 0
  /\ global_list = << >>
  /\ printed = << >>
  /\ calls = << >>

\* no timed cell has run
TimeIdle ==
  /\ tpc = 1
  /\ phase = "idle"
  /\ device = "none"
  /\ loop = 0
  /\ timer = [on |-> FALSE, compiled0 |-> 0]
  /\ measured = << >>

\* the machine state the calls act on
MS ==
  [cache |-> jit_cache, compiled |-> compiled, next_oid |-> next_oid,
   global_list |-> global_list, printed |-> printed]

InitFit == FitIdle /\ JitIdle /\ TimeIdle /\ subject = "none"

Cell1 ==
  /\ pc = "cell1"
  /\ \E seed \in Seeds : data_seed' = seed
  /\ pc' = "cell2"
  /\ cell' = 1
  /\ UNCHANGED << timevars, initial_params, optimizer, fitted, params, opt_state, i,
                  loss_value, step_fn, stdout, jitvars >>

Cell2 ==
  /\ pc = "cell2"
  /\ initial_params' = InitialParams
  /\ pc' = "cell3"
  /\ cell' = 2
  /\ UNCHANGED << timevars, data_seed, optimizer, fitted,
                  params, opt_state, i, loss_value, step_fn, stdout, jitvars >>

\* the call fit(p, opt): opt_state = optimizer.init(params), step is defined,
\* and the loop starts
EnterFit(p, opt) ==
  /\ params' = p
  /\ opt_state' = OptInit(opt, p)
  /\ step_fn' = DefStep(next_oid)
  /\ next_oid' = next_oid + 1
  /\ i' = 0
  /\ loss_value' = None
  /\ pc' = "loop"

\* optimizer = optax.adam(learning_rate=1e-2); params = fit(initial_params, optimizer)
Cell3 ==
  /\ pc = "cell3"
  /\ cell' = 3
  /\ optimizer' = "adam"
  /\ EnterFit(initial_params, "adam")
  /\ UNCHANGED << timevars, data_seed, initial_params, fitted, stdout,
                  subject, jit_cache, compiled, global_list, printed, calls >>

\* the arguments of a call of step as jax.jit sees them: the leaves of params
\* and of opt_state (the moments of adam have the shapes of params), the batch
\* and the labels; a leaf is held by its shape, its type and a number that
\* stands for its value
StepArgs(p, state, batch, labels) ==
  << Arr(p.hidden.shape, "float32", FALSE, p.hidden.n),
     Arr(p.output.shape, "float32", FALSE, p.output.n),
     Arr(<< >>, "int32", FALSE, state.count),
     Arr(p.hidden.shape, "float32", FALSE, state.count),
     Arr(p.output.shape, "float32", FALSE, state.count),
     Arr(shape_of(batch), "uint8", FALSE, BatchDigest(batch, labels).x[1]),
     Arr(shape_of(labels), "float32", FALSE, BatchDigest(batch, labels).y[1]) >>

\* the jit cache after a call of the jitted step: the call compiles if its key
\* is not cached
JitStepCall(ms, fnobj, args) ==
  IF \E e \in ms.cache : e.key = CacheKey(fnobj, {}, args)
    THEN ms
    ELSE [ms EXCEPT !.cache = @ \cup {[key |-> CacheKey(fnobj, {}, args),
                                       jaxpr |-> << >>]},
                    !.compiled = Append(@, CacheKey(fnobj, {}, args))]

\* one iteration of the loop of fit: the step, then the print.  Before the
\* first step the local params is the record the caller passed, initial_params
FitStep ==
  /\ pc = "loop"
  /\ i < ZipLen(TRAINING_DATA_len, LABELS_len)
  /\ \E r \in {step(params, opt_state, TRAINING_DATA(i), LABELS(i))} :
       /\ params' = r.params
       /\ opt_state' = r.opt_state
       /\ loss_value' = r.loss_value
       /\ initial_params' = IF i = 0 THEN r.passed ELSE initial_params
       /\ stdout' = IF ShouldLog(i)
                      THEN Append(stdout, [cell |-> cell, step |-> i,
                                           loss |-> r.loss_value])
                      ELSE stdout
  /\ \E c \in {JitStepCall(MS, step_fn,
                            StepArgs(params, opt_state, TRAINING_DATA(i), LABELS(i)))} :
       /\ jit_cache' = c.cache
       /\ compiled' = c.compiled
  /\ i' = i + 1
  /\ UNCHANGED << timevars, pc, cell, data_seed, optimizer, fitted, step_fn,
                  subject, next_oid, global_list, printed, calls >>

\* the loop is exhausted: return params, assigned to the global params
FitReturn ==
  /\ pc = "loop"
  /\ i >= ZipLen(TRAINING_DATA_len, LABELS_len)
  /\ fitted' = params
  /\ pc' = IF cell = 3 THEN "cell4" ELSE "end"
  /\ UNCHANGED << timevars, cell, data_seed, initial_params, optimizer, params,
                  opt_state, i, loss_value, step_fn, stdout, jitvars >>

\* optimizer = optax.chain(optax.clip(1.0), optax.adamw(learning_rate=schedule));
\* params = fit(initial_params, optimizer)
Cell4 ==
  /\ pc = "cell4"
  /\ cell' = 4
  /\ optimizer' = "chain(clip, adamw)"
  /\ EnterFit(initial_params, "chain(clip, adamw)")
  /\ UNCHANGED << timevars, data_seed, initial_params, fitted, stdout,
                  subject, jit_cache, compiled, global_list, printed, calls >>

NextFit == Cell1 \/ Cell2 \/ Cell3 \/ FitStep \/ FitReturn \/ Cell4

SpecFit == InitFit /\ [][NextFit]_vars

(***************************************************************************)
(* The jitting notebook: a session calls one of its functions MaxCalls     *)
(* times at most, with arguments drawn from small sets.                    *)
(***************************************************************************)
\* f = jax.jit(fun, static_argnums/static_argnames): the Python function that
\* each jitted function of the notebook wraps, and its static arguments
JitFun(name) ==
  CASE name = "selu_jit" -> "selu"
    [] name \in {"f_jit", "f_jit_correct"} -> "f"
    [] name \in {"g_jit", "g_jit_correct"} -> "g"
    [] name = "g_jit_decorated" -> "g_jit_decorated"
    [] name = "jit(log2)" -> "log2"
    [] name = "jit(log2_with_print)" -> "log2_with_print"

JitStatics(name) ==
  CASE name = "f_jit_correct" -> {1}
    [] name \in {"g_jit_correct", "g_jit_decorated"} -> {2}
    [] OTHER -> {}

JitSubjects == {"selu_jit", "f_jit", "g_jit", "f_jit_correct", "g_jit_correct",
                "g_jit_decorated", "jit(log2)", "jit(log2_with_print)"}
InnerSubjects == {"g_inner_jitted", "g_inner_jitted_partial",
                  "g_inner_jitted_lambda", "g_inner_jitted_normal"}
PlainSubjects == {"f", "g"}
JaxprSubjects == {"log2", "log2_with_print", "log2_if_rank_2"}

\* the arguments the sessions draw from
XInts == {INT32_MIN, -1, 0, 10, INT32_MAX}
NInts == {-1, 0, 1, 2}
Arrays == {Arr(<<3>>, "int32", FALSE, 0), Arr(<<3>>, "int32", FALSE, 1),
           Arr(<<2, 2>>, "int32", FALSE, 1), Arr(<<3>>, "float32", FALSE, 1)}
Ranked == {PyFloat(300), Arr(<<3>>, "int32", FALSE, 1), Arr(<<2, 2>>, "float32", FALSE, 1),
           Arr(<<2, 3>>, "int32", FALSE, 1), Arr(<<2, 2, 2>>, "float32", FALSE, 1)}

ArgsOf(name) ==
  CASE name = "selu_jit" -> {<< a >> : a \in Arrays}
    [] name \in {"f_jit", "f_jit_correct", "f"} -> {<< PyInt(x) >> : x \in XInts}
    [] name \in {"g_jit_correct"} ->
         {<< x, PyInt(n) >> : x \in {PyInt(10), PyInt(INT32_MAX), Arr(<<3>>, "int32", FALSE, 1)},
                             n \in NInts}
    [] name \in {"g_jit", "g_jit_decorated", "g"} \cup InnerSubjects ->
         {<< PyInt(x), PyInt(n) >> : x \in {10, INT32_MAX}, n \in NInts}
    [] name \in {"jit(log2)", "jit(log2_with_print)", "log2", "log2_with_print"} ->
         {<< PyFloat(300) >>, << PyFloat(200) >>, << Arr(<<3>>, "float32", FALSE, 1) >>}
    [] name = "log2_if_rank_2" -> {<< a >> : a \in Ranked}

SetMS(ms) ==
  /\ jit_cache' = ms.cache
  /\ compiled' = ms.compiled
  /\ next_oid' = ms.next_oid
  /\ global_list' = ms.global_list
  /\ printed' = ms.printed

Logged(how, args, res, jaxpr) ==
  calls' = Append(calls, [fn |-> subject, how |-> how, args |-> args,
                          res |-> res, jaxpr |-> jaxpr])

\* a call of one of the jitted functions
CallJitted ==
  /\ subject \in JitSubjects
  /\ Len(calls) < MaxCalls
  /\ \E args \in ArgsOf(subject) :
       \E r \in {JitCall(MS, TopLevel(JitFun(subject)), JitStatics(subject), args)} :
         SetMS(r.ms) /\ Logged("jit", args, r.res, << >>)
  /\ UNCHANGED << timevars, fitvars, subject >>

\* a call of one of the Python functions that call jax.jit in their loop
CallInner ==
  /\ subject \in InnerSubjects
  /\ Len(calls) < MaxCalls
  /\ \E args \in ArgsOf(subject) :
       \E r \in {g_inner(subject, MS, args[1], args[2])} :
         SetMS(r.ms) /\ Logged("plain", args, r.res, << >>)
  /\ UNCHANGED << timevars, fitvars, subject >>

\* a call of f or g themselves, not jitted
CallPlain ==
  /\ subject \in PlainSubjects
  /\ Len(calls) < MaxCalls
  /\ \E args \in ArgsOf(subject) :
       \E r \in {Body(subject, NewCtx(FALSE, 0, global_list, printed), args)} :
          /\ global_list' = r.ctx.global_list
          /\ printed' = r.ctx.printed
          /\ Logged("plain", args, IF r.ctx.err # "" THEN Err(r.ctx.err) ELSE Ok(r.val),
                    << >>)
  /\ UNCHANGED << timevars, fitvars, subject, jit_cache, compiled, next_oid >>

\* print(jax.make_jaxpr(fun)(x)): the function is traced and its jaxpr shown
MakeJaxpr ==
  /\ subject \in JaxprSubjects
  /\ Len(calls) < MaxCalls
  /\ \E args \in ArgsOf(subject) :
       \E t \in {Trace(subject, {}, args, global_list, printed)} :
          /\ global_list' = t.global_list
          /\ printed' = t.printed
          /\ Logged("make_jaxpr", args, [err |-> t.err, val |-> << >>],
                    IF t.err = "" THEN << t.jaxpr >> ELSE << >>)
  /\ UNCHANGED << timevars, fitvars, subject, jit_cache, compiled, next_oid >>

InitJit ==
  /\ FitIdle
  /\ JitIdle
  /\ TimeIdle
  /\ subject \in JitSubjects \cup InnerSubjects \cup PlainSubjects \cup JaxprSubjects

NextJit == CallJitted \/ CallInner \/ CallPlain \/ MakeJaxpr

SpecJit == InitJit /\ [][NextJit]_vars

(***************************************************************************)
(* The timed cells of the jitting notebook.  JAX dispatches a computation  *)
(* and returns its result array at once; the device finishes it later, and *)
(* block_until_ready() on the array returns when it has.                   *)
(***************************************************************************)
\* x = jnp.arange(1000000)
x_arange == Arr(<< 1000000 >>, "int32", FALSE, 0)

\* the statements that are timed and the calls before them that compile what
\* they time, in the order of the notebook: the line, whether %timeit runs it,
\* the function called and how, the arguments, and whether the statement
\* waits for the result (.block_until_ready(), or print of the result)
TimingScript ==
  << [line |-> 196, timed |-> TRUE, fn |-> "selu", how |-> "eager",
      args |-> << x_arange >>, blocks |-> TRUE],
     [line |-> 230, timed |-> FALSE, fn |-> "selu_jit", how |-> "jit",
      args |-> << x_arange >>, blocks |-> TRUE],
     [line |-> 232, timed |-> TRUE, fn |-> "selu_jit", how |-> "jit",
      args |-> << x_arange >>, blocks |-> TRUE],
     [line |-> 444, timed |-> FALSE, fn |-> "g_jit_correct", how |-> "jit",
      args |-> << PyInt(10), PyInt(TimedN) >>, blocks |-> TRUE],
     [line |-> 515, timed |-> TRUE, fn |-> "g_jit_correct", how |-> "jit",
      args |-> << PyInt(10), PyInt(TimedN) >>, blocks |-> TRUE],
     [line |-> 518, timed |-> TRUE, fn |-> "g", how |-> "eager",
      args |-> << PyInt(10), PyInt(TimedN) >>, blocks |-> FALSE],
     [line |-> 601, timed |-> TRUE, fn |-> "g_inner_jitted_partial", how |-> "inner",
      args |-> << PyInt(10), PyInt(TimedN) >>, blocks |-> TRUE],
     [line |-> 604, timed |-> TRUE, fn |-> "g_inner_jitted_lambda", how |-> "inner",
      args |-> << PyInt(10), PyInt(TimedN) >>, blocks |-> TRUE],
     [line |-> 607, timed |-> TRUE, fn |-> "g_inner_jitted_normal", how |-> "inner",
      args |-> << PyInt(10), PyInt(TimedN) >>, blocks |-> TRUE] >>

\* whether the statement calls .block_until_ready() on (or prints) its result
Blocks_never(st) == FALSE
Blocks(st) == st.blocks

\* the call of a statement in the machine state ms: the state after it and
\* the value returned
RunStatement(st, ms) ==
  CASE st.how = "jit" ->
         Then(JitCall(ms, TopLevel(JitFun(st.fn)), JitStatics(st.fn), st.args),
              LAMBDA r : [ms |-> r.ms, val |-> r.res.val[1]])
    [] st.how = "inner" ->
         Then(g_inner(st.fn, ms, st.args[1], st.args[2]),
              LAMBDA r : [ms |-> r.ms, val |-> r.res.val[1]])
    [] st.how = "eager" ->
         Then(Body(st.fn, NewCtx(FALSE, 0, ms.global_list, ms.printed), st.args),
              LAMBDA r : [ms |-> [ms EXCEPT !.global_list = r.ctx.global_list,
                                            !.printed = r.ctx.printed],
                          val |-> r.val])

\* the host calls the function of the statement; a %timeit starts its timer
\* before the first call.  Tracing and compilation happen in the call; a
\* result that is a JAX array is returned with its computation still running
TimedCall ==
  /\ tpc <= Len(TimingScript)
  /\ phase = "idle"
  /\ \E r \in {RunStatement(TimingScript[tpc], MS)} :
       /\ SetMS(r.ms)
       /\ device' = IF r.val.k = "arr" THEN "running" ELSE "none"
  /\ timer' = IF loop = 0
                THEN [on |-> TimingScript[tpc].timed, compiled0 |-> Len(compiled)]
                ELSE timer
  /\ phase' = "called"
  /\ UNCHANGED << fitvars, subject, calls, tpc, loop, measured >>

\* the device finishes the computation
DeviceFinish ==
  /\ device = "running"
  /\ device' = "done"
  /\ UNCHANGED << fitvars, jitvars, tpc, phase, loop, timer, measured >>

\* .block_until_ready(): returns at once if the result is ready, waits if not
Block ==
  /\ phase = "called"
  /\ Blocks(TimingScript[tpc])
  /\ phase' = IF device = "running" THEN "blocked" ELSE "returned"
  /\ UNCHANGED << fitvars, jitvars, tpc, device, loop, timer, measured >>

\* the wait of block_until_ready ends when the result is ready
Unblock ==
  /\ phase = "blocked"
  /\ device = "done"
  /\ phase' = "returned"
  /\ UNCHANGED << fitvars, jitvars, tpc, device, loop, timer, measured >>

\* a statement without block_until_ready ends when the call has returned
NoBlock ==
  /\ phase = "called"
  /\ ~Blocks(TimingScript[tpc])
  /\ phase' = "returned"
  /\ UNCHANGED << fitvars, jitvars, tpc, device, loop, timer, measured >>

\* the run of the statement ends, and its measurement if it is timed; a
\* %timeit then runs the statement again or stops, the next statement follows
EndLoop ==
  /\ phase = "returned"
  /\ measured' = Append(measured,
                        [line |-> TimingScript[tpc].line,
                         fn |-> TimingScript[tpc].fn,
                         timed |-> timer.on,
                         jax |-> device # "none",
                         ready |-> device # "running",
                         compiled_inside |-> Len(compiled) - timer.compiled0])
  /\ phase' = "idle"
  /\ \/ /\ TimingScript[tpc].timed
        /\ loop + 1 < MaxLoops
        /\ loop' = loop + 1
        /\ UNCHANGED << tpc, timer >>
     \/ /\ tpc' = tpc + 1
        /\ loop' = 0
        /\ timer' = [on |-> FALSE, compiled0 |-> 0]
  /\ UNCHANGED << fitvars, jitvars, device >>

InitTiming == FitIdle /\ JitIdle /\ TimeIdle /\ subject = "timing"

NextTiming == TimedCall \/ DeviceFinish \/ Block \/ Unblock \/ NoBlock \/ EndLoop

SpecTiming == InitTiming /\ [][NextTiming]_vars

(***************************************************************************)
(* Claims about the training script, checked under SpecFit.                *)
(***************************************************************************)
\* the update that the k-th step (k = 0 .. NUM_TRAIN_STEPS - 1) must apply:
\* the gradient of batch k, taken at the params that the k earlier steps made
ExpectedUpdate(k, opt) ==
  [grads |-> [g |-> [x |-> [j \in 1 .. BATCH_SIZE |-> RAW_TRAINING_DATA(k)[j][1]],
                     y |-> [j \in 1 .. BATCH_SIZE |-> RAW_TRAINING_DATA(k)[j][1] % 2]],
              at |-> k],
   opt |-> opt, t |-> k]

\* C1: fit takes exactly one gradient step per batch, in index order 0 ..
\* NUM_TRAIN_STEPS - 1; step 0 receives the params argument and
\* optimizer.init(params), step i the params and state returned by step i - 1;
\* the loop ends after exactly NUM_TRAIN_STEPS steps and fit returns the params
\* of the last step.
C1_FitStepsEveryBatchInOrder ==
  /\ pc = "loop" =>
       /\ i \in 0 .. NUM_TRAIN_STEPS
       /\ opt_state = [opt |-> optimizer, count |-> i]
       /\ i = 0 => params = initial_params
       /\ \A k \in {"hidden", "output"} :
            /\ params[k].n = i
            /\ params[k].shape = initial_params[k].shape
            /\ params[k].key = initial_params[k].key
            /\ i > 0 => params[k].tip = << ExpectedUpdate(i - 1, optimizer) >>
  /\ pc \in {"cell4", "end"} =>
       /\ i = NUM_TRAIN_STEPS
       /\ fitted = params
       /\ \A k \in {"hidden", "output"} :
            fitted[k] = [initial_params[k] EXCEPT
                           !.n = NUM_TRAIN_STEPS,
                           !.tip = << ExpectedUpdate(NUM_TRAIN_STEPS - 1, optimizer) >>]

\* C1 witness: the first fit has returned after its 1000 steps
C1_Witness ==
  /\ pc = "cell4"
  /\ i = NUM_TRAIN_STEPS
  /\ fitted.hidden.n = NUM_TRAIN_STEPS

\* the steps of the lines printed by cell c, in the order printed
LoggedSteps(c) ==
  LET lines == SelectSeq(stdout, LAMBDA l : l.cell = c)
  IN [k \in 1 .. Len(lines) |-> lines[k].step]

\* C2: during one fit a loss line is printed for step i iff i is a multiple of
\* 100: after the steps 0 .. i - 1 the lines are those of 0, 100, 200, ... below
\* i, in increasing order; a whole fit prints exactly 10 lines, for 0, 100, ...,
\* 900, and none for the last step 999.
C2_LogEveryHundredthStep ==
  /\ pc = "loop" =>
       LoggedSteps(cell) = [k \in 1 .. ((i + 99) \div 100) |-> (k - 1) * 100]
  /\ pc \in {"cell4", "end"} =>
       /\ LoggedSteps(cell) = <<0, 100, 200, 300, 400, 500, 600, 700, 800, 900>>
       /\ \A j \in 0 .. NUM_TRAIN_STEPS - 1 :
            (\E k \in 1 .. Len(LoggedSteps(cell)) : LoggedSteps(cell)[k] = j)
              <=> (j % 100 = 0)
       /\ \A k \in 1 .. Len(stdout) : stdout[k].step # NUM_TRAIN_STEPS - 1

\* C2 witness: both fits have run and printed their ten lines each
C2_Witness ==
  /\ pc = "end"
  /\ Len(stdout) = 20
  /\ stdout[10].step = 900
  /\ stdout[11].step = 0

\* C10: for every training sample the features are the 8 bits of the raw
\* integer (most significant first, so that they add up to it again) and the
\* label is the one-hot encoding over 2 classes of raw mod 2: class 0 for an
\* even integer, class 1 for an odd one.
C10_FeaturesAndParityLabels ==
  pc \in {"cell2", "cell3", "cell4", "end"} =>
    \A s \in 0 .. NUM_TRAIN_STEPS - 1 : \A j \in 1 .. BATCH_SIZE :
      LET raw == RAW_TRAINING_DATA(s)[j][1]
          bits == TRAINING_DATA(s)[j]
      IN /\ raw \in 0 .. 254
         /\ Len(bits) = 8
         /\ \A k \in 1 .. 8 : bits[k] \in {0, 1}
         /\ bits[1] * 128 + bits[2] * 64 + bits[3] * 32 + bits[4] * 16
              + bits[5] * 8 + bits[6] * 4 + bits[7] * 2 + bits[8] = raw
         /\ LABELS(s)[j] = IF raw % 2 = 0 THEN <<1, 0>> ELSE <<0, 1>>

\* C10 witness: the data exist and hold an odd sample of class 1 and an even
\* sample of class 0
C10_Witness ==
  /\ pc = "cell2"
  /\ \E s \in 0 .. 9 : \E j \in 1 .. BATCH_SIZE :
       /\ RAW_TRAINING_DATA(s)[j][1] % 2 = 1
       /\ RAW_TRAINING_DATA(s)[j][1] > 128
       /\ TRAINING_DATA(s)[j][1] = 1 /\ TRAINING_DATA(s)[j][8] = 1
       /\ LABELS(s)[j] = <<0, 1>>
  /\ \E s \in 0 .. 9 : \E j \in 1 .. BATCH_SIZE :
       /\ RAW_TRAINING_DATA(s)[j][1] % 2 = 0
       /\ TRAINING_DATA(s)[j][8] = 0
       /\ LABELS(s)[j] = <<1, 0>>

(***************************************************************************)
(* Claims about the jitting notebook, checked under SpecJit.  calls is the *)
(* log of the session: the arguments and the result of every call made.    *)
(***************************************************************************)
Called == 1 .. Len(calls)

\* the shapes and types of the arguments of a call that are not static
Signature(args, statics) ==
  [p \in 1 .. Len(args) |->
     IF p \in statics THEN [shape |-> << >>, dtype |-> "static", weak |-> FALSE]
     ELSE [shape |-> args[p].shape,
           dtype |-> IF args[p].dtype = "int" THEN "int32"
                     ELSE IF args[p].dtype = "float" THEN "float32"
                     ELSE args[p].dtype,
           weak |-> args[p].weak]]

\* the values of the static arguments of a call
StaticValues(args, statics) ==
  [p \in 1 .. Len(args) |-> IF p \in statics THEN << args[p].v >> ELSE << >>]

Returned(k) == calls[k].res.err = ""

NoStaticSubjects == {"selu_jit", "jit(log2)", "jit(log2_with_print)"}
StaticSubjects == {"f_jit_correct", "g_jit_correct", "g_jit_decorated"}

\* C3: for f = jax.jit(g) without static arguments the first call traces and
\* compiles g and caches the code, and every later call with arguments of the
\* same shape and type, whatever their values, reuses it: the number of
\* compilations is the number of distinct shapes and types called with, and it
\* is exactly 1 after any sequence of calls of one shape and type.
C3_SameSignatureCompilesOnce ==
  subject \in NoStaticSubjects =>
    /\ \A k \in Called : Returned(k)
    /\ Len(compiled) = Cardinality({Signature(calls[k].args, {}) : k \in Called})
    /\ Cardinality(jit_cache) = Len(compiled)
    /\ (/\ Len(calls) >= 1
        /\ \A k \in Called :
             Signature(calls[k].args, {}) = Signature(calls[1].args, {}))
         => Len(compiled) = 1

\* C3 witness: selu_jit called three times on arrays of one shape and type but
\* not of one value, compiled once
C3_Witness ==
  /\ subject = "selu_jit"
  /\ Len(calls) = 3
  /\ calls[1].args # calls[2].args
  /\ \A k \in Called : Signature(calls[k].args, {}) = Signature(calls[1].args, {})
  /\ Len(compiled) = 1

\* C4 as stated: over any call sequence of a function jitted with static
\* arguments (its calls returning), the number of compilations equals the
\* number of distinct static-argument values used.
C4_CompilationsEqualStaticValues ==
  (subject \in StaticSubjects /\ \A k \in Called : Returned(k)) =>
    Len(compiled) =
      Cardinality({StaticValues(calls[k].args, JitStatics(subject)) : k \in Called})

\* C4 amended: the cached code is used only for a call whose static values and
\* whose shapes and types of the other arguments equal those of an earlier call
\* that returned; over any sequence of calls that return and whose non-static
\* arguments have one shape and type, the number of compilations equals the
\* number of distinct static-argument values used.
C4_CompilationsPerStaticValueAndSignature ==
  subject \in StaticSubjects =>
    /\ Len(compiled) =
         Cardinality({<< StaticValues(calls[k].args, JitStatics(subject)),
                         Signature(calls[k].args, JitStatics(subject)) >> :
                        k \in {c \in Called : Returned(c)}})
    /\ Cardinality(jit_cache) = Len(compiled)
    /\ (/\ \A k \in Called : Returned(k)
        /\ \A k \in Called :
             Signature(calls[k].args, JitStatics(subject))
               = Signature(calls[1].args, JitStatics(subject)))
         => Len(compiled) =
              Cardinality({StaticValues(calls[k].args, JitStatics(subject)) :
                             k \in Called})

\* C4 witness: g_jit_correct called three times with x of one type and two
\* distinct values of n, compiled twice
C4_Witness ==
  /\ subject = "g_jit_correct"
  /\ Len(calls) = 3
  /\ \A k \in Called : Returned(k) /\ calls[k].args[1].k = "py"
  /\ calls[1].args[2] # calls[2].args[2]
  /\ calls[3].args[2] = calls[1].args[2]
  /\ Len(compiled) = 2

\* the iterations of the loops of the calls 1 .. k of g_inner_jitted*
RECURSIVE Iterations(_)
Iterations(k) ==
  IF k = 0 THEN 0
  ELSE Iterations(k - 1) + (IF calls[k].args[2].v > 0 THEN calls[k].args[2].v ELSE 0)

\* C5: with jax.jit called inside the loop the cache is keyed on the function
\* object passed: g_inner_jitted_partial and g_inner_jitted_lambda pass a new
\* object on every iteration and compile on every one of the n iterations;
\* g_inner_jitted_normal passes the one unjitted_loop_body and compiles at most
\* once, every later iteration hitting the cache.
C5_LoopCompilesPerFunctionObject ==
  /\ subject \in {"g_inner_jitted_partial", "g_inner_jitted_lambda"} =>
       /\ Len(compiled) = Iterations(Len(calls))
       /\ \A a, b \in 1 .. Len(compiled) :
            a # b => compiled[a].fn.oid # compiled[b].fn.oid
  /\ subject = "g_inner_jitted_normal" =>
       /\ Len(compiled) <= 1
       /\ Len(compiled) = 1 <=> Iterations(Len(calls)) >= 1
       /\ \A a \in 1 .. Len(compiled) :
            compiled[a].fn = [name |-> "unjitted_loop_body", oid |-> 0]

\* C5 witness: a call with n = 2 of the partial or lambda variant has compiled
\* twice, and calls of the normal variant with five iterations in all once
C5_Witness ==
  \/ /\ subject \in {"g_inner_jitted_partial", "g_inner_jitted_lambda"}
     /\ Len(calls) = 1
     /\ calls[1].args[2].v = 2
     /\ Len(compiled) = 2
  \/ /\ subject = "g_inner_jitted_normal"
     /\ Iterations(Len(calls)) = 5
     /\ Len(compiled) = 1

\* C6: a call of a jitted function whose Python control flow depends on the
\* value of a traced argument fails with ConcretizationTypeError while tracing
\* and returns no result: f_jit(x) for every x, g_jit(x, n) for every x and n;
\* nothing is compiled or cached.
C6_ValueDependentControlFlowFails ==
  subject \in {"f_jit", "g_jit"} =>
    /\ \A k \in Called :
         /\ calls[k].res.err = "ConcretizationTypeError"
         /\ calls[k].res.val = << >>
    /\ compiled = << >>
    /\ jit_cache = {}

\* C6 witness: g_jit called with n <= 0 and with n > 0, and both calls failed
C6_Witness ==
  /\ subject = "g_jit"
  /\ Len(calls) = 2
  /\ calls[1].args[2].v = -1
  /\ calls[2].args[2].v = 2
  /\ calls[2].res.err = "ConcretizationTypeError"

\* the variants of f and of g that work when called
FVariants == {"f_jit_correct"}
GVariants == {"g_jit_correct", "g_jit_decorated", "g_inner_jitted",
              "g_inner_jitted_partial", "g_inner_jitted_lambda",
              "g_inner_jitted_normal"}

\* the plain Python original of a variant, called on the same arguments
PlainOriginal(name, args) ==
  Body(IF name \in FVariants THEN "f" ELSE "g", NewCtx(FALSE, 0, << >>, << >>), args).val

SameValue(a, b) == ~a.big /\ ~b.big /\ a.v = b.v

\* C7 as stated: every working jitted variant returns the same value as its
\* plain Python original for all inputs.
C7_JittedEqualsPlainForAllInputs ==
  subject \in FVariants \cup GVariants =>
    \A k \in Called :
      /\ Returned(k)
      /\ SameValue(calls[k].res.val[1], PlainOriginal(subject, calls[k].args))

\* whether the integer that f(x), or g(x, n), is in exact arithmetic lies in
\* the int32 range, and that integer
FFits(x) == x > 0 \/ (x >= INT32_MIN \div 2)
FValue(x) == IF x > 0 THEN x ELSE 2 * x
GSteps(n) == IF n >= 0 THEN n ELSE 0
GFits(x, n) == x <= INT32_MAX - GSteps(n)
GValue(x, n) == x + GSteps(n)

\* C7 amended: every working jitted variant returns the same value as its
\* plain Python original for all int32 inputs for which the plain result lies
\* in the int32 range: f_jit_correct(x) = f(x) (x if x > 0, else 2x), and the
\* six variants of g all equal g(x, n), which is x + n for every integer n >= 0
\* and x for n <= 0.
C7_JittedEqualsPlainWithinInt32 ==
  /\ subject \in FVariants \cup {"f"} =>
       \A k \in Called :
         LET x == calls[k].args[1].v
             res == calls[k].res
         IN IF FFits(x)
              THEN Returned(k) /\ ~res.val[1].big /\ res.val[1].v = FValue(x)
              ELSE subject = "f" => Returned(k) /\ res.val[1].big
  /\ subject \in GVariants \cup {"g"} =>
       \A k \in Called :
         LET x == calls[k].args[1].v
             n == calls[k].args[2].v
             res == calls[k].res
         IN IF GFits(x, n)
              THEN Returned(k) /\ ~res.val[1].big /\ res.val[1].v = GValue(x, n)
              ELSE subject = "g" => Returned(k) /\ res.val[1].big

\* C7 witness: a variant of g that jits inside its loop has returned 10 + 2
\* and then 10 for n = -1
C7_Witness ==
  /\ subject \in {"g_inner_jitted", "g_inner_jitted_lambda"}
  /\ Len(calls) = 2
  /\ calls[1].args = << PyInt(10), PyInt(2) >>
  /\ calls[1].res.val[1].v = 12
  /\ calls[2].args = << PyInt(10), PyInt(-1) >>
  /\ calls[2].res.val[1].v = 10

\* the primitives of the equations of a jaxpr, in order
Prims(jaxpr) == [e \in 1 .. Len(jaxpr.eqns) |-> jaxpr.eqns[e].prim]

\* C8: the Python side effects of a JAX-transformed function (the append to
\* global_list, the print) run once, during the trace of the first call, and
\* never on the later calls that reuse the trace; the side effect is not in
\* the jaxpr recorded, and the value it observes is a tracer.
C8_SideEffectsOnlyWhenTracing ==
  /\ subject = "jit(log2)" =>
       /\ Len(global_list) = Cardinality({Signature(calls[k].args, {}) : k \in Called})
       /\ \A e \in 1 .. Len(global_list) : global_list[e].k = "tr"
       /\ printed = << >>
  /\ subject = "jit(log2_with_print)" =>
       /\ Len(printed) = Cardinality({Signature(calls[k].args, {}) : k \in Called})
       /\ \A e \in 1 .. Len(printed) : printed[e].val.k = "tr"
       /\ global_list = << >>
  /\ subject \in {"jit(log2)", "jit(log2_with_print)"} =>
       \A j \in jit_cache : Prims(j.jaxpr) = << "log", "log", "div" >>
  /\ subject \in {"log2", "log2_with_print"} =>
       /\ \A k \in Called :
            /\ Returned(k)
            /\ Prims(calls[k].jaxpr[1]) = << "log", "log", "div" >>
       /\ Len(global_list) = (IF subject = "log2" THEN Len(calls) ELSE 0)
       /\ Len(printed) = (IF subject = "log2" THEN 0 ELSE Len(calls))
       /\ \A e \in 1 .. Len(global_list) : global_list[e].k = "tr"
       /\ \A e \in 1 .. Len(printed) : printed[e].val.k = "tr"

\* C8 witness: the jitted log2 called three times on Python floats of two
\* values: one append, of a tracer
C8_Witness ==
  /\ subject = "jit(log2)"
  /\ Len(calls) = 3
  /\ \A k \in Called : calls[k].args[1].k = "py"
  /\ calls[1].args # calls[2].args
  /\ Len(global_list) = 1
  /\ global_list[1].k = "tr"

\* C9: a jaxpr records only the branch taken for the traced arguments, and a
\* branch on the shape of an argument raises no error: make_jaxpr of
\* log2_if_rank_2 gives the identity program (the output is the input, no
\* equation) on an input whose rank is not 2 and the log, log, div program on
\* an input of rank 2.
C9_JaxprOfBranchTaken ==
  subject = "log2_if_rank_2" =>
    \A k \in Called :
      /\ Returned(k)
      /\ Len(calls[k].args[1].shape) # 2 =>
           /\ calls[k].jaxpr[1].eqns = << >>
           /\ calls[k].jaxpr[1].out.var
           /\ calls[k].jaxpr[1].out.v = 1
      /\ Len(calls[k].args[1].shape) = 2 =>
           /\ Prims(calls[k].jaxpr[1]) = << "log", "log", "div" >>
           /\ calls[k].jaxpr[1].out.var
           /\ calls[k].jaxpr[1].out.v = 4

\* C9 witness: the jaxprs of an input of rank 1 and of an input of rank 2
C9_Witness ==
  /\ subject = "log2_if_rank_2"
  /\ Len(calls) = 2
  /\ Len(calls[1].args[1].shape) = 1
  /\ calls[1].jaxpr[1].eqns = << >>
  /\ Len(calls[2].args[1].shape) = 2
  /\ Len(calls[2].jaxpr[1].eqns) = 3

(***************************************************************************)
(* Further claims about the training script, checked under SpecFit.        *)
(***************************************************************************)
\* C11: shapes are consistent at every step of fit: each batch is BATCH_SIZE
\* x 8, each label block BATCH_SIZE x 2, the hidden weights 8 x 32 and the
\* output weights 32 x 2, so net(batch, params) is BATCH_SIZE x 2, the shape
\* of the labels, and the loss is a scalar; the params returned by every step
\* keep the keys and the shapes of initial_params.
C11_ShapesConsistent ==
  pc = "loop" =>
    /\ DOMAIN params = DOMAIN initial_params
    /\ \A k \in DOMAIN params : params[k].shape = initial_params[k].shape
    /\ params.hidden.shape = << 8, 32 >>
    /\ params.output.shape = << 32, 2 >>
    /\ \A s \in {i - 1, i} \cap (0 .. NUM_TRAIN_STEPS - 1) :
         /\ shape_of(TRAINING_DATA(s)) = << BATCH_SIZE, 8 >>
         /\ \A j \in 1 .. BATCH_SIZE : Len(TRAINING_DATA(s)[j]) = 8
         /\ shape_of(LABELS(s)) = << BATCH_SIZE, 2 >>
         /\ \A j \in 1 .. BATCH_SIZE : Len(LABELS(s)[j]) = 2
    /\ i > 0 =>
         /\ loss_value.y_hat = << BATCH_SIZE, 2 >>
         /\ loss_value.y_hat = shape_of(LABELS(i - 1))
         /\ loss_value.shape = << >>

\* C11 witness: the last step of the second fit has run, on params of the
\* shapes of initial_params
C11_Witness ==
  /\ pc = "loop"
  /\ cell = 4
  /\ i = NUM_TRAIN_STEPS
  /\ loss_value.y_hat = << 5, 2 >>
  /\ params.hidden.shape = << 8, 32 >>

\* the lines printed by the first fit (cell 3) and by the second (cell 4)
LinesOf(c) == SelectSeq(stdout, LAMBDA l : l.cell = c)

\* C12 as stated: no batch, label or parameter value is shared between one
\* invocation of fit and another: a step of the second invocation never has
\* the batch and labels, nor the params, that a step of the first had.
C12_NothingSharedBetweenFits ==
  \A a \in 1 .. Len(LinesOf(3)) : \A b \in 1 .. Len(LinesOf(4)) :
    /\ LinesOf(3)[a].loss.data # LinesOf(4)[b].loss.data
    /\ LinesOf(3)[a].loss.params # LinesOf(4)[b].loss.params

\* C12 amended: the batches, the labels and initial_params are created once
\* per run of the script and both invocations of fit read them: step s of the
\* second invocation has the batch and labels that step s of the first had,
\* and both start from initial_params; what an invocation makes (its updated
\* params, its optimizer state) is not carried into the other.
C12_FitsShareDataNotResults ==
  /\ \A b \in 1 .. Len(LinesOf(4)) :
       /\ LinesOf(4)[b].step = LinesOf(3)[b].step
       /\ LinesOf(4)[b].loss.data = LinesOf(3)[b].loss.data
       /\ LinesOf(4)[b].loss.data =
            [x |-> [j \in 1 .. BATCH_SIZE |->
                      DrawRaw(data_seed, LinesOf(4)[b].step)[j][1]],
             y |-> [j \in 1 .. BATCH_SIZE |->
                      DrawRaw(data_seed, LinesOf(4)[b].step)[j][1] % 2]]
  /\ \A c \in {3, 4} :
       Len(LinesOf(c)) >= 1 =>
         LinesOf(c)[1].loss.params = [keys |-> << 0, 1 >>, n |-> 0, tip |-> << >>]
  /\ (pc = "loop" /\ cell = 4 /\ i = 0) =>
       /\ params = initial_params
       /\ params # fitted
       /\ opt_state.count = 0
  /\ (pc = "loop" /\ cell = 4 /\ i > 0) =>
       /\ params.hidden.n = i
       /\ params.hidden.tip[1].opt = "chain(clip, adamw)"

\* C12 witness: the second fit has logged its step 100, on the batch that the
\* first fit had at its step 100
C12_Witness ==
  /\ cell = 4
  /\ Len(LinesOf(4)) = 2
  /\ LinesOf(4)[2].step = 100
  /\ LinesOf(4)[2].loss.data = LinesOf(3)[2].loss.data
  /\ LinesOf(4)[2].loss.data # LinesOf(4)[1].loss.data

\* C15: fit never modifies the params object passed to it: while and after
\* fit(initial_params, optimizer) runs, initial_params holds the values it had
\* before, so the second invocation starts from exactly the parameters the
\* first started from.
C15_FitLeavesInitialParams ==
  /\ pc \in {"cell3", "loop", "cell4", "end"} =>
       /\ initial_params.hidden = [shape |-> << 8, 32 >>, key |-> 0, n |-> 0, tip |-> << >>]
       /\ initial_params.output = [shape |-> << 32, 2 >>, key |-> 1, n |-> 0, tip |-> << >>]
  /\ (pc = "loop" /\ i = 0) => params = initial_params
  /\ (pc = "loop" /\ i > 0) => params # initial_params
  /\ pc \in {"cell4", "end"} => fitted # initial_params

\* C15 witness: the second fit starts, after the 1000 steps of the first, from
\* initial_params as cell 2 made it
C15_Witness ==
  /\ pc = "loop"
  /\ cell = 4
  /\ i = 0
  /\ fitted.hidden.n = NUM_TRAIN_STEPS
  /\ params = initial_params
  /\ initial_params.hidden.n = 0

\* C16: the loss that step i returns, and that is logged, is computed from the
\* params before the update of step i, not after it; so the loss logged at
\* step 0 depends on the initial params and batch 0 only and is the same for
\* the two optimizers, the initial params and the data being the same.
C16_LossOfParamsBeforeUpdate ==
  /\ (pc = "loop" /\ i > 0) =>
       /\ loss_value.params.n = i - 1
       /\ loss_value.params.n = params.hidden.n - 1
       /\ i > 1 => loss_value.params.tip[1].t = i - 2
       /\ loss_value.data.x = [j \in 1 .. BATCH_SIZE |-> DrawRaw(data_seed, i - 1)[j][1]]
  /\ \A l \in 1 .. Len(stdout) :
       /\ stdout[l].loss.params.n = stdout[l].step
       /\ stdout[l].step = 0 =>
            /\ stdout[l].loss.params = [keys |-> << 0, 1 >>, n |-> 0, tip |-> << >>]
            /\ stdout[l].loss.data.x = [j \in 1 .. BATCH_SIZE |-> DrawRaw(data_seed, 0)[j][1]]
  /\ Len(LinesOf(4)) >= 1 => LinesOf(4)[1].loss = LinesOf(3)[1].loss

\* C16 witness: the second optimizer has logged its step 0, with the loss the
\* first optimizer logged at its step 0
C16_Witness ==
  /\ cell = 4
  /\ optimizer = "chain(clip, adamw)"
  /\ pc = "loop"
  /\ i = 1
  /\ Len(LinesOf(4)) = 1
  /\ LinesOf(4)[1].loss = LinesOf(3)[1].loss
  /\ params.hidden.tip[1].opt # fitted.hidden.tip[1].opt

\* C17: the jitted step is defined anew in each invocation of fit: within an
\* invocation it is traced and compiled once, at step 0, and the other 999
\* calls reuse the code, all the batches having one shape; the second
\* invocation makes another function object and compiles again, so the two
\* invocations cause exactly two compilations of step.
C17_StepCompiledOncePerFit ==
  /\ (pc = "loop" /\ cell = 3) => Len(compiled) = (IF i = 0 THEN 0 ELSE 1)
  /\ pc = "cell4" => Len(compiled) = 1
  /\ (pc = "loop" /\ cell = 4) => Len(compiled) = (IF i = 0 THEN 1 ELSE 2)
  /\ pc = "end" => Len(compiled) = 2
  /\ Cardinality(jit_cache) = Len(compiled)
  /\ \A k \in 1 .. Len(compiled) : compiled[k].fn.name = "step"
  /\ (pc = "loop" /\ i > 0) => compiled[Len(compiled)].fn = step_fn
  /\ Len(compiled) = 2 =>
       /\ compiled[1].fn # compiled[2].fn
       /\ compiled[1].parts = compiled[2].parts

\* C17 witness: both fits have run their 1000 steps and step was compiled twice
C17_Witness ==
  /\ pc = "end"
  /\ i = NUM_TRAIN_STEPS
  /\ Len(compiled) = 2
  /\ compiled[2].fn = step_fn

(***************************************************************************)
(* A claim about the timed cells, checked under SpecTiming.                *)
(***************************************************************************)
\* C14: every timed call of a JAX computation blocks until its result is
\* ready before its measurement ends; and the warm-up call of selu_jit, which
\* traces and compiles, has completed before the timed calls of selu_jit
\* start, so that nothing is compiled inside their timed section.
C14_TimedCallsBlockAndWarmUp ==
  /\ \A m \in 1 .. Len(measured) :
       /\ (measured[m].timed /\ measured[m].jax) => measured[m].ready
       /\ (measured[m].timed /\ measured[m].fn = "selu_jit") =>
            /\ measured[m].compiled_inside = 0
            /\ \E w \in 1 .. m - 1 :
                 /\ measured[w].fn = "selu_jit"
                 /\ ~measured[w].timed
                 /\ measured[w].ready
                 /\ measured[w].compiled_inside = 1
  /\ (timer.on /\ phase = "returned" /\ device # "none") => device = "done"
  /\ (timer.on /\ tpc <= Len(TimingScript) /\ TimingScript[tpc].fn = "selu_jit") =>
       Len(compiled) = timer.compiled0

\* C14 witness: after the warm-up, which compiled, and a first timed call of
\* selu_jit, the host waits in block_until_ready for the result of the second
\* timed call, with nothing compiled since the timer started
C14_Witness ==
  /\ Len(measured) = 3
  /\ measured[2].fn = "selu_jit" /\ ~measured[2].timed
  /\ measured[2].compiled_inside = 1
  /\ measured[3].fn = "selu_jit" /\ measured[3].timed
  /\ measured[3].ready /\ measured[3].jax
  /\ measured[3].compiled_inside = 0
  /\ tpc = 3
  /\ timer.on
  /\ phase = "blocked"
  /\ device = "running"
  /\ Len(compiled) = timer.compiled0

=============================================================================
